---- MODULE Spec2Model ----
(***************************************************************************)
(* Session / token lifecycle of the user controller: registerUser,         *)
(* loginUser, logoutUser, refreshAccessToken, updatePassword and the       *)
(* helper generateAccessAndRefreshToken.  Every handler is an async        *)
(* function: it runs atomically between two awaits on the store, so each   *)
(* handler is a sequence of steps (one per store round trip) and the       *)
(* steps of the requests in flight interleave freely.                      *)
(***************************************************************************)
EXTENDS Integers, FiniteSets, Sequences, TLC

\* ------------------------------------------------------------------ bounds
MaxUsers == 2          \* records the store may hold
SessionUsers == 1      \* records stored while all the handlers run concurrently
MaxInflight == 2       \* requests being handled at the same time
MaxTime == 2           \* last second of the clock
MaxRequests == 5       \* requests the service receives in a run
RefreshTTL == 2        \* REFRESH_TOKEN_EXPIRY, seconds
AccessTTL == 1         \* ACCESS_TOKEN_EXPIRY, seconds

\* ------------------------------------------------------------------ values
Undefined == "undefined"                  \* a missing body field
Ids == 1..MaxUsers
Slots == 1..MaxInflight

\* what the clients send
RegUsernames == {"alice", "Alice", "bob", Undefined}
RegEmails == {"a@x.com", "b@x.com"}
RegFullNames == {"Al", " "}
RegPasswords == {"p1"}
RegFiles == {"avatar", "noavatar", "nofiles"}  \* req.files: with avatar / without / absent
UploadResults == {"avatar.url", Undefined}    \* uploadOnCloudinary: the asset's url, or null
LoginUsernames == {"alice", "bob", Undefined}
LoginEmails == {"a@x.com", "b@x.com", Undefined}
LoginPasswords == {"p1", "p2", Undefined}
ChangePasswords == {"p1", "p2"}
ChangeUsernames == {"alice", Undefined}
ChangeEmails == {"b@x.com", Undefined}

\* String.prototype.trim on the strings of the model
trim(str) == IF str = " " THEN "" ELSE str

\* String.prototype.toLowerCase on the strings of the model
toLowerCase(str) == IF str = "Alice" THEN "alice" ELSE str

\* registerUser's validation: [..].some((field) => field?.trim() === "")
someFieldBlank(fields) ==
  \E f \in fields : f # Undefined /\ trim(f) = ""

\* bcrypt hash of the pre-save hook, and bcrypt.compare of isPasswordCorrect
bcryptHash(plain) == <<"bcrypt", plain>>

isPasswordCorrect(doc, plain) == doc["password"] = bcryptHash(plain)

\* jwt.sign: a token is its signed claim set; equal claims and secret give the
\* same string
jwtSign(sub, secret, iat, ttl) ==
  [sub |-> sub, secret |-> secret, iat |-> iat, exp |-> iat + ttl]

generateAccessToken(id, t) == jwtSign(id, "ACCESS_TOKEN_SECRET", t, AccessTTL)

generateRefreshToken(id, t) == jwtSign(id, "REFRESH_TOKEN_SECRET", t, RefreshTTL)

jwtVerifySignatureOnly(token, secret, t) == token.secret = secret

\* jwt.verify: the signature must be the secret's and the token not expired
jwtVerify(token, secret, t) == token.secret = secret /\ t < token.exp

\* no token: a missing cookie and body field, a missing document field
NoToken == [sub |-> 0, secret |-> "none", iat |-> 0, exp |-> 0]

\* a string no secret of the service has signed
Garbage == [sub |-> 1, secret |-> "forged", iat |-> 0, exp |-> MaxTime + 1]

\* every refresh token the service can have signed for id up to second t
RefreshTokensOf(id, t) == {generateRefreshToken(id, i) : i \in 0..t}

NoChange == [old |-> Undefined, new |-> Undefined]

\* ------------------------------------------------------------------ state
VARIABLES
  users,      \* the User collection: _id -> document (a function on field names)
  now,        \* the clock, in seconds (the resolution of a token's iat)
  reqs,       \* per slot: the request being handled
  resp,       \* the response on its way to the client (NoResponse when there is
              \* none), with the history of the request it answers
  delivered,  \* history: refresh tokens returned to a client, per identity
  redeemed,   \* history: refresh tokens a successful Refresh has exchanged
  revoked,    \* history: tokens delivered before the last Logout, per identity
  lastChange, \* history: the last successful password change, per identity
  received    \* history: how many requests have arrived

vars == <<users, now, reqs, resp, delivered, redeemed, revoked, lastChange, received>>

\* user.refreshToken, undefined when the document has no such field
storedRefreshToken(doc) ==
  IF "refreshToken" \in DOMAIN doc THEN doc["refreshToken"] ELSE NoToken

\* Query.select("-a -b"): the document without the excluded fields
select(doc, excluded) == [f \in (DOMAIN doc) \ excluded |-> doc[f]]

\* document.set(field, value)
setField(doc, field, value) ==
  [f \in (DOMAIN doc) \cup {field} |-> IF f = field THEN value ELSE doc[f]]

Stored == DOMAIN users

findOneByUsername(username, email) ==
  {i \in Stored : username # Undefined /\ users[i]["username"] = username}

\* User.findOne({ $or: [{ username }, { email }] }): the matching documents
\* (every document has both fields, so an undefined value matches none)
findOneMatches(username, email) ==
  {i \in Stored : \/ (username # Undefined /\ users[i]["username"] = username)
                  \/ (email # Undefined /\ users[i]["email"] = email)}

NoBody == [statusCode |-> 0]

NoReq ==
  [op |-> "none", pc |-> "idle",
   username |-> Undefined, email |-> Undefined, fullName |-> Undefined,
   password |-> Undefined, newPassword |-> Undefined, files |-> Undefined,
   token |-> NoToken, authId |-> 0,
   uid |-> 0, accessToken |-> NoToken, refreshToken |-> NoToken,
   \* history of this request, for the properties
   valid |-> FALSE, dupAtStart |-> FALSE, created |-> 0,
   saved |-> NoToken, wrote |-> FALSE,
   replay |-> FALSE, afterLogout |-> FALSE, second |-> FALSE,
   pwRel |-> "none", oldOk |-> FALSE, reuse |-> FALSE, before |-> <<>>,
   absent |-> FALSE, rejected |-> FALSE, loginCase |-> "none", current |-> FALSE]

\* res.status(status).json(body), or the error handler's answer, with the
\* history of the request it answers
Response(r, status, body) ==
  [op |-> r.op, status |-> status, body |-> body, token |-> r.token, uid |-> r.uid,
   valid |-> r.valid, dupAtStart |-> r.dupAtStart, created |-> r.created,
   saved |-> r.saved, wrote |-> r.wrote, replay |-> r.replay,
   afterLogout |-> r.afterLogout, second |-> r.second,
   pwRel |-> r.pwRel, oldOk |-> r.oldOk, reuse |-> r.reuse, before |-> r.before,
   absent |-> r.absent, rejected |-> r.rejected, loginCase |-> r.loginCase,
   current |-> r.current]

NoResponse == Response(NoReq, 0, NoBody)

\* the slot a new request takes: the requests in flight are interchangeable,
\* so it is the first free one
Free(s) ==
  /\ resp = NoResponse
  /\ received < MaxRequests
  /\ reqs[s].pc = "idle"
  /\ \A t \in Slots : t < s => reqs[t].pc # "idle"

\* the handler of slot s is at the step pc, and no response is on its way (a
\* response reaches its client before the service takes another step)
At(s, pc) == resp = NoResponse /\ reqs[s].pc = pc

\* a step of an idle slot is the arrival of a request
Counted(s) == received' = IF reqs[s].pc = "idle" THEN received + 1 ELSE received

InFlight == {s \in Slots : reqs[s].pc # "idle"}

\* the handler of slot s answers and ends
Reply(s, r, status, body) ==
  /\ reqs' = [reqs EXCEPT ![s] = NoReq]
  /\ resp' = Response(r, status, body)
  /\ Counted(s)

\* throw new ApiError(status, ...), answered by the error handler
Fail(s, r, status) == Reply(s, r, status, [statusCode |-> status])

\* the handler of slot s awaits its next store call
Go(s, r) ==
  /\ reqs' = [reqs EXCEPT ![s] = r]
  /\ resp' = NoResponse
  /\ Counted(s)

Init ==
  /\ users = <<>>
  /\ now = 0
  /\ reqs = [s \in Slots |-> NoReq]
  /\ resp = NoResponse
  /\ delivered = [i \in Ids |-> {}]
  /\ redeemed = {}
  /\ revoked = [i \in Ids |-> {}]
  /\ lastChange = [i \in Ids |-> NoChange]
  /\ received = 0

\* ------------------------------------------------------------------ registerUser
\* A handler does nothing the others can see between the arrival of its request
\* and the answer to its first store call, so both are one step.

\* history: a stored record has this username or this email
Duplicates(username, email) ==
  \E i \in Stored : users[i]["username"] = username \/ users[i]["email"] = email

\* history: none of the text fields sent is an empty or blank string
NoneBlank(fields) == fields \cap {"", " "} = {}

\* the identities the registrations in flight ask for
Pending ==
  {<<toLowerCase(reqs[t].username), reqs[t].email>> : t \in {x \in Slots : reqs[x].op = "register"}}

\* the store is bounded: a registration is taken on only while the records
\* stored and asked for stay within MaxUsers
HasRoom(username, email) ==
  Cardinality(Stored) + Cardinality(Pending \cup {<<toLowerCase(username), email>>}) <= MaxUsers

\* the request arrives and User.findOne answers: the field validation, the
\* duplicate check, then the avatar path; the uploads are sent
registerUser(s, username, email, fullName, password, files) ==
  /\ Free(s)
  /\ LET r == [NoReq EXCEPT !.op = "register", !.username = username, !.email = email,
                            !.fullName = fullName, !.password = password, !.files = files,
                            !.valid = NoneBlank({fullName, email, username, password}),
                            !.dupAtStart = Duplicates(username, email),
                            !.absent = Undefined \in {fullName, email, username, password}]
     IN IF someFieldBlank({fullName, email, username, password}) THEN Fail(s, r, 400)
        ELSE IF findOneMatches(username, email) # {} THEN Fail(s, r, 409)
        ELSE IF files = "noavatar" THEN Fail(s, r, 500)  \* TypeError on avatar[0]
        ELSE IF files = "nofiles" THEN Fail(s, r, 400)
        ELSE /\ HasRoom(username, email)
             /\ Go(s, [r EXCEPT !.pc = "reg_create"])
  /\ UNCHANGED <<users, now, delivered, redeemed, revoked, lastChange>>

newUserRawName(r, avatar) ==
  [username |-> r.username, fullName |-> r.fullName, email |-> r.email,
   password |-> bcryptHash(r.password), avatar |-> avatar, coverImage |-> ""]

\* the document User.create builds, avatar being the url of the uploaded asset
newUser(r, avatar) ==
  [username |-> toLowerCase(r.username), fullName |-> r.fullName, email |-> r.email,
   password |-> bcryptHash(r.password), avatar |-> avatar, coverImage |-> ""]

avatarNeverMissing(avatar) == FALSE

\* if (!avatar): the upload gave no asset
avatarMissing(avatar) == avatar = Undefined

\* the schema's checks on User.create: required fields, unique username and email
createRejected(r) ==
  \/ Undefined \in {r.username, r.email, r.fullName, r.password}
  \/ \E i \in Stored : \/ users[i]["username"] = toLowerCase(r.username)
                       \/ users[i]["email"] = r.email

\* the two uploads answer (the asset host is external: the avatar upload gives
\* a response or null), then User.create
registerCreate(s, avatar) ==
  /\ At(s, "reg_create")
  /\ LET r == reqs[s]
         id == Cardinality(Stored) + 1
     IN IF avatarMissing(avatar)
        THEN /\ Fail(s, r, 400)
             /\ UNCHANGED users
        ELSE IF createRejected(r)
        THEN /\ Fail(s, [r EXCEPT !.rejected = TRUE], 500)
             /\ UNCHANGED users
        ELSE /\ users' = [i \in Stored \cup {id} |-> IF i = id THEN newUser(r, avatar) ELSE users[i]]
             /\ Go(s, [r EXCEPT !.pc = "reg_resp", !.uid = id, !.created = id])
  /\ UNCHANGED <<now, delivered, redeemed, revoked, lastChange>>

\* the fields registerUser leaves out of the identity it returns
registerExcluded == {"password", "refreshToken"}

\* User.findById(user._id).select("-password -refreshToken"), and the answer
registerRespond(s) ==
  /\ At(s, "reg_resp")
  /\ LET r == reqs[s]
     IN IF r.uid \notin Stored THEN Fail(s, r, 500)
        ELSE Reply(s, r, 201, [statusCode |-> 201,
                               user |-> select(users[r.uid], registerExcluded)])
  /\ UNCHANGED <<users, now, delivered, redeemed, revoked, lastChange>>

\* ------------------------------------------------------------------ loginUser
\* how the password of a Login relates to the identity's last password change
relationToChange(change, password) ==
  IF change = NoChange THEN "none"
  ELSE IF password = change.new THEN "new"
  ELSE IF password = change.old THEN "old"
  ELSE "other"

\* history: which of Login's outcomes the request's fields call for, id being
\* the record the lookup gives (0 when it gives none)
LoginCase(id, username, email, password) ==
  IF username = Undefined /\ email = Undefined THEN "missing"
  ELSE IF id = 0 THEN "nomatch"
  ELSE IF password = Undefined THEN "nopassword"
  ELSE IF users[id]["password"] # bcryptHash(password) THEN "badpassword"
  ELSE "ok"

loginMissingFieldNotFound(s, password) ==
  /\ Free(s)
  /\ Fail(s, [NoReq EXCEPT !.op = "login", !.password = password,
                           !.loginCase = LoginCase(0, Undefined, Undefined, password)], 404)
  /\ UNCHANGED <<users, now, delivered, redeemed, revoked, lastChange>>

\* the request arrives with neither username nor email
loginMissingField(s, password) ==
  /\ Free(s)
  /\ Fail(s, [NoReq EXCEPT !.op = "login", !.password = password,
                           !.loginCase = LoginCase(0, Undefined, Undefined, password)], 400)
  /\ UNCHANGED <<users, now, delivered, redeemed, revoked, lastChange>>

\* the request arrives and User.findOne answers with no document
loginNotFound(s, username, email, password) ==
  /\ Free(s)
  /\ ~(username = Undefined /\ email = Undefined)
  /\ findOneMatches(username, email) = {}
  /\ Fail(s, [NoReq EXCEPT !.op = "login", !.username = username, !.email = email,
                           !.password = password,
                           !.loginCase = LoginCase(0, username, email, password)], 404)
  /\ UNCHANGED <<users, now, delivered, redeemed, revoked, lastChange>>

\* the request arrives and User.findOne answers with a matching document (the
\* store picks one when username and email match different documents), then
\* the password check
loginUser(s, id, username, email, password) ==
  /\ Free(s)
  /\ id \in findOneMatches(username, email)
  /\ LET r == [NoReq EXCEPT !.op = "login", !.username = username, !.email = email,
                            !.password = password, !.uid = id,
                            !.pwRel = relationToChange(lastChange[id], password),
                            !.loginCase = LoginCase(id, username, email, password)]
     IN IF password = Undefined THEN Fail(s, r, 500)  \* bcrypt.compare throws
        ELSE IF ~isPasswordCorrect(users[id], password) THEN Fail(s, r, 401)
        ELSE Go(s, [NoReq EXCEPT !.op = "login", !.pc = "gen_find", !.uid = id,
                                 !.pwRel = r.pwRel])
  /\ UNCHANGED <<users, now, delivered, redeemed, revoked, lastChange>>

loginExcludedPasswordOnly == {"password", "videoUpload", "watchHistory"}

\* the fields loginUser leaves out of the identity it returns
loginExcluded == {"password", "refreshToken", "videoUpload", "watchHistory"}

\* User.findById(user._id).select(...), and the answer with the two tokens
loginRespond(s) ==
  /\ At(s, "login_resp")
  /\ LET r == reqs[s]
     IN /\ Reply(s, r, 200, [statusCode |-> 200,
                             user |-> select(users[r.uid], loginExcluded),
                             accessToken |-> r.accessToken,
                             refreshToken |-> r.refreshToken])
  /\ UNCHANGED <<users, now, delivered, redeemed, revoked, lastChange>>

\* ------------------------------------------------------------------ generateAccessAndRefreshToken
refreshRethrow(status) == status

\* refreshAccessToken's catch: whatever status was thrown inside the try block,
\* the handler throws ApiError(401)
refreshCatch(status) == 401

\* the status a failure inside the helper ends with: the helper throws 500,
\* which refreshAccessToken's catch turns into 401
generateFailure(op) == IF op = "refresh" THEN refreshCatch(500) ELSE 500

\* User.findById(userId) answers, and the two tokens are signed
generateFind(s) ==
  /\ At(s, "gen_find")
  /\ LET r == reqs[s]
     IN IF r.uid \notin Stored THEN Fail(s, r, generateFailure(r.op))
        ELSE Go(s, [r EXCEPT !.pc = "gen_save",
                               !.accessToken = generateAccessToken(r.uid, now),
                               !.refreshToken = generateRefreshToken(r.uid, now)])
  /\ UNCHANGED <<users, now, delivered, redeemed, revoked, lastChange>>

saveNothing(doc, accessToken, refreshToken) == doc

saveAccessTokenInstead(doc, accessToken, refreshToken) ==
  [f \in (DOMAIN doc) \cup {"refreshToken"} |->
     IF f = "refreshToken" THEN accessToken ELSE doc[f]]

\* user.refreshToken = refreshToken; user.save(): the document after the save
saveRefreshToken(doc, accessToken, refreshToken) ==
  setField(doc, "refreshToken", refreshToken)

\* the response body of a successful refreshAccessToken
refreshBody(accessToken, refreshToken) ==
  [statusCode |-> 201, accessToken |-> accessToken, refreshToken |-> refreshToken]

\* user.save() lands and the helper returns the pair: loginUser goes on to
\* read the identity back, refreshAccessToken answers
generateSave(s) ==
  /\ At(s, "gen_save")
  /\ LET r == reqs[s]
         u == r.uid
         doc == saveRefreshToken(users[u], r.accessToken, r.refreshToken)
         q == [r EXCEPT !.saved = storedRefreshToken(doc), !.second = r.token \in redeemed]
     IN /\ users' = [users EXCEPT ![u] = doc]
        /\ IF r.op = "login"
           THEN /\ reqs' = [t \in Slots |->
                              IF t = s THEN [q EXCEPT !.pc = "login_resp"]
                              ELSE IF reqs[t].op = "refresh" /\ reqs[t].token.sub = u
                                   THEN [reqs[t] EXCEPT !.afterLogout = FALSE]
                                   ELSE reqs[t]]
                /\ revoked' = [revoked EXCEPT ![u] = {}]
                /\ resp' = NoResponse
                /\ UNCHANGED received
                /\ UNCHANGED <<delivered, redeemed>>
           ELSE /\ Reply(s, q, 200, refreshBody(r.accessToken, r.refreshToken))
                /\ redeemed' = redeemed \cup {r.token}
                /\ UNCHANGED <<delivered, revoked>>
  /\ UNCHANGED <<now, lastChange>>

\* ------------------------------------------------------------------ logoutUser
\* the access tokens verifyJWT accepts for id at this second
authenticated(id) ==
  \E t \in delivered[id] :
    jwtVerify(generateAccessToken(id, t.iat), "ACCESS_TOKEN_SECRET", now)

\* User.findByIdAndUpdate(req.user._id, { $unset: { refreshToken: 1 } })
logoutUser(id) ==
  /\ resp = NoResponse
  /\ received < MaxRequests
  /\ received' = received + 1
  /\ id \in Stored
  /\ authenticated(id)
  /\ users' = [users EXCEPT ![id] = select(@, {"refreshToken"})]
  /\ revoked' = [revoked EXCEPT ![id] = delivered[id]]
  /\ resp' = Response([NoReq EXCEPT !.op = "logout", !.uid = id], 200, [statusCode |-> 200])
  /\ UNCHANGED <<now, reqs, delivered, redeemed, lastChange>>

\* ------------------------------------------------------------------ refreshAccessToken
\* what a client can present: a token it was given (refresh or access), nothing,
\* or a string of its own
Presentable ==
  UNION {delivered[i] : i \in Ids}
    \cup {generateAccessToken(t.sub, t.iat) : t \in UNION {delivered[i] : i \in Ids}}
    \cup {NoToken, Garbage}

\* history: the refresh token most recently given to identity i (tokens are
\* signed at the second they are minted, so it is the one issued last)
Latest(i) == CHOOSE t \in delivered[i] : \A u \in delivered[i] : u.iat <= t.iat

\* history: token is the one most recently given to an identity that has not
\* logged out since, and it has not expired
IsCurrent(token) ==
  \E i \in Ids : /\ delivered[i] # {}
                 /\ revoked[i] = {}
                 /\ token = Latest(i)
                 /\ now < token.exp

\* the request arrives: the token is read and jwt.verify checks it
refreshAccessToken(s, token) ==
  /\ Free(s)
  /\ token \in Presentable
  /\ LET r == [NoReq EXCEPT !.op = "refresh", !.token = token,
                            !.replay = token \in redeemed,
                            !.afterLogout = \E i \in Ids : token \in revoked[i],
                            !.current = IsCurrent(token)]
     IN IF token = NoToken THEN Fail(s, r, refreshCatch(401))
        \* jwt.verify throws an error that carries no status (500 if not caught)
        ELSE IF ~jwtVerify(token, "REFRESH_TOKEN_SECRET", now)
        THEN Fail(s, r, refreshCatch(500))
        ELSE Go(s, [r EXCEPT !.pc = "ref_find", !.uid = token.sub])
  /\ UNCHANGED <<users, now, delivered, redeemed, revoked, lastChange>>

tokenMismatchDropped(incoming, doc) == FALSE

\* incomingRefreshToken !== user.refreshToken
tokenMismatch(incoming, doc) == incoming # storedRefreshToken(doc)

\* User.findById(decodedToken._id) answers, then the comparison with the
\* stored token
refreshFind(s) ==
  /\ At(s, "ref_find")
  /\ LET r == reqs[s]
     IN IF r.uid \notin Stored THEN Fail(s, r, refreshCatch(401))
        ELSE IF tokenMismatch(r.token, users[r.uid]) THEN Fail(s, r, refreshCatch(401))
        ELSE Go(s, [r EXCEPT !.pc = "gen_find"])
  /\ UNCHANGED <<users, now, delivered, redeemed, revoked, lastChange>>

\* ------------------------------------------------------------------ updatePassword
\* User.findById(req.user?._id) || User.findOne(...): the documents it can give
\* (authId 0: no authenticated caller)
updatePasswordMatches(authId, username, email) ==
  IF authId \in Stored THEN {authId} ELSE findOneMatches(username, email)

\* the request arrives and neither lookup gives a document:
\* user.isPasswordCorrect throws a TypeError
updatePasswordNotFound(s, username, email) ==
  /\ Free(s)
  /\ updatePasswordMatches(0, username, email) = {}
  /\ Fail(s, [NoReq EXCEPT !.op = "changePassword", !.username = username,
                           !.email = email], 500)
  /\ UNCHANGED <<users, now, delivered, redeemed, revoked, lastChange>>

\* the two password checks: the status they throw, 0 when both pass
passwordChecksNoReuse(doc, oldPassword, newPassword) ==
  IF ~isPasswordCorrect(doc, oldPassword) THEN 400 ELSE 0

passwordChecks(doc, oldPassword, newPassword) ==
  IF ~isPasswordCorrect(doc, oldPassword) THEN 400
  ELSE IF isPasswordCorrect(doc, newPassword) THEN 406
  ELSE 0

\* the request arrives, from an authenticated caller (authId) or with a
\* username / email, the lookup answers, then the two password checks
updatePassword(s, id, authId, username, email, oldPassword, newPassword) ==
  /\ Free(s)
  /\ authId # 0 => authId \in Stored /\ authenticated(authId)
                   /\ username = Undefined /\ email = Undefined
  /\ id \in updatePasswordMatches(authId, username, email)
  /\ LET r == [NoReq EXCEPT !.op = "changePassword", !.uid = id,
                            !.password = oldPassword, !.newPassword = newPassword,
                            !.reuse = (newPassword = oldPassword),
                            !.oldOk = (users[id]["password"] = bcryptHash(oldPassword)),
                            !.before = users[id]["password"]]
         thrown == passwordChecks(users[id], oldPassword, newPassword)
     IN IF thrown # 0 THEN Fail(s, r, thrown)
        ELSE Go(s, [r EXCEPT !.pc = "cp_save"])
  /\ UNCHANGED <<users, now, delivered, redeemed, revoked, lastChange>>

savePasswordDropsToken(doc, oldPassword, newPassword) ==
  [f \in (DOMAIN doc) \ {"refreshToken"} |->
     IF f = "password" THEN bcryptHash(newPassword) ELSE doc[f]]

saveOldPassword(doc, oldPassword, newPassword) ==
  [f \in DOMAIN doc |-> IF f = "password" THEN bcryptHash(oldPassword) ELSE doc[f]]

\* user.password = newPassword; user.save() with the pre-save hash
savePassword(doc, oldPassword, newPassword) ==
  setField(doc, "password", bcryptHash(newPassword))

\* user.save() lands, and the answer
updatePasswordSave(s) ==
  /\ At(s, "cp_save")
  /\ LET r == reqs[s]
         u == r.uid
     IN /\ users' = [users EXCEPT ![u] = savePassword(@, r.password, r.newPassword)]
        /\ reqs' = [t \in Slots |->
                      IF t = s THEN NoReq
                      ELSE IF reqs[t].op = "login" /\ reqs[t].uid = u
                           THEN [reqs[t] EXCEPT !.pwRel = "none"]
                           ELSE reqs[t]]
        /\ resp' = Response([r EXCEPT !.wrote = TRUE], 200,
                            [statusCode |-> 200, newPassword |-> r.newPassword])
        /\ UNCHANGED received
        /\ lastChange' = [lastChange EXCEPT ![u] = [old |-> r.password, new |-> r.newPassword]]
  /\ UNCHANGED <<now, delivered, redeemed, revoked>>

\* ------------------------------------------------------------------ the client
\* the client receives the response; a successful Login or Refresh gives it
\* the new refresh token
Deliver ==
  /\ resp # NoResponse
  /\ resp' = NoResponse
  /\ delivered' = IF resp.op \in {"login", "refresh"} /\ resp.status = 200
                  THEN [delivered EXCEPT ![resp.uid] = @ \cup {resp.body.refreshToken}]
                  ELSE delivered
  /\ UNCHANGED <<users, now, reqs, redeemed, revoked, lastChange, received>>

\* ------------------------------------------------------------------ the clock
Tick ==
  /\ resp = NoResponse
  /\ now < MaxTime
  /\ now' = now + 1
  /\ resp' = NoResponse
  /\ UNCHANGED <<users, reqs, delivered, redeemed, revoked, lastChange, received>>

\* ------------------------------------------------------------------ specifications
\* a Register request arrives in a free slot and its first store call answers
Register ==
  \E s \in Slots, u \in RegUsernames, e \in RegEmails, f \in RegFullNames,
     p \in RegPasswords, fl \in RegFiles : registerUser(s, u, e, f, p, fl)

\* a request of another kind arrives in a free slot (and, but for a Refresh,
\* its first store call answers)
Arrive ==
  \E s \in Slots :
    \/ \E p \in LoginPasswords : loginMissingField(s, p)
    \/ \E u \in LoginUsernames, e \in LoginEmails, p \in LoginPasswords :
          loginNotFound(s, u, e, p)
    \/ \E i \in Ids, u \in LoginUsernames, e \in LoginEmails, p \in LoginPasswords :
          loginUser(s, i, u, e, p)
    \/ \E t \in Presentable : refreshAccessToken(s, t)
    \/ \E u \in ChangeUsernames, e \in ChangeEmails : updatePasswordNotFound(s, u, e)
    \/ \E i \in Ids, a \in Ids \cup {0}, u \in ChangeUsernames, e \in ChangeEmails,
          o \in ChangePasswords, n \in ChangePasswords :
          updatePassword(s, i, a, u, e, o, n)

\* a request in flight takes its next step
Continue ==
  \E s \in Slots :
    \/ \E a \in UploadResults : registerCreate(s, a)
    \/ registerRespond(s)
    \/ loginRespond(s)
    \/ generateFind(s)
    \/ generateSave(s)
    \/ refreshFind(s)
    \/ updatePasswordSave(s)

Logout == \E i \in Ids : logoutUser(i)

\* this step takes on no registration, or the records stored and asked for
\* after it are at most n
RoomFor(n) ==
  \/ \A s \in Slots : ~(reqs[s].pc = "idle" /\ reqs'[s].op = "register")
  \/ Cardinality(Stored) + Cardinality(Pending') <= n

\* a Register request arrives while there is room among SessionUsers records
SessionRegister == Register /\ RoomFor(SessionUsers)

\* requests of every kind are handled concurrently, for SessionUsers records
Next == SessionRegister \/ Arrive \/ Continue \/ Logout \/ Tick \/ Deliver

Spec == Init /\ [][Next]_vars

\* Register requests are handled concurrently, for MaxUsers records
RegNext ==
  \/ Register
  \/ \E s \in Slots, a \in UploadResults : registerCreate(s, a)
  \/ \E s \in Slots : registerRespond(s)
  \/ Deliver

RegSpec == Init /\ [][RegNext]_vars

\* requests of every kind are handled one at a time, for MaxUsers records
SeqNext == (InFlight = {} /\ (Register \/ Arrive \/ Logout)) \/ Continue \/ Tick \/ Deliver

SeqSpec == Init /\ [][SeqNext]_vars

\* ------------------------------------------------------------------ properties
\* what a Refresh presenting token, handled alone from this state, ends with:
\* TRUE when it succeeds
Accepts(token) ==
  /\ token # NoToken
  /\ jwtVerify(token, "REFRESH_TOKEN_SECRET", now)
  /\ token.sub \in Stored
  /\ ~tokenMismatch(token, users[token.sub])

\* C1 - Single-use refresh tokens, requests handled one at a time: a Refresh
\* presenting a token that a Refresh has already exchanged fails with 401,
\* however little time lies between the two.
C1_ReplayFails ==
  resp.op = "refresh" /\ resp.replay => resp.status = 401

\* C2 - At-most-once redemption under concurrency: of the Refresh requests in
\* flight together that present the same stored token at most one succeeds, so
\* a Refresh that arrived before the token was exchanged and succeeds is the
\* first to exchange it.
C2_RedeemedAtMostOnce ==
  resp.op = "refresh" /\ resp.status = 200 /\ ~resp.replay => ~resp.second

\* C3 - Rotation yields a new token: every successful Refresh returns a refresh
\* token that differs from the one presented, at whatever second it runs.
C3_RotationYieldsNewToken ==
  resp.op = "refresh" /\ resp.status = 200 => resp.body.refreshToken # resp.token

\* C4 - Logout then Refresh fails: a Refresh that arrives after a Logout of the
\* identity, presenting a token the identity was given before that Logout, and
\* with no Login of the identity since, fails with 401.
C4_LogoutThenRefreshFails ==
  resp.op = "refresh" /\ resp.afterLogout => resp.status = 401

\* C5 - Login stores what it returns: the refresh token of a successful Login's
\* response is the token that Login wrote to the identity's record.
C5_LoginStoresWhatItReturns ==
  resp.op = "login" /\ resp.status = 200 =>
    resp.saved # NoToken /\ resp.body.refreshToken = resp.saved

C5_Witness == resp.op = "login" /\ resp.status = 200 /\ resp.saved.iat > 0

C7_PasswordChangeTakesEffect ==
  resp.op = "login" =>
    /\ resp.pwRel = "new" => resp.status = 200
    /\ resp.pwRel = "old" => resp.status # 200

C7_Witness == resp.op = "login" /\ resp.pwRel = "new" /\ resp.status = 200

\* C8 - Password reuse is rejected: a password change with the correct old
\* password and a new password equal to it fails with 406, and the stored hash
\* is the one it found.
C8_ReuseRejected ==
  resp.op = "changePassword" /\ resp.oldOk /\ resp.reuse =>
    /\ resp.status = 406
    /\ ~resp.wrote
    /\ users[resp.uid]["password"] = resp.before

C8_Witness ==
  resp.op = "changePassword" /\ resp.oldOk /\ resp.reuse /\ resp.status = 406

\* C9 - Duplicate registration is rejected: a Register none of whose text
\* fields is empty or blank, and whose username or email is that of a stored
\* record, fails with 409 and creates no record.
C9_DuplicateRejected ==
  resp.op = "register" /\ resp.dupAtStart /\ resp.valid =>
    resp.status = 409 /\ resp.created = 0

C9_Witness ==
  resp.op = "register" /\ resp.dupAtStart /\ resp.valid /\ resp.status = 409

\* C9 as first stated: every Register whose username or email is that of a
\* stored record fails with 409 and creates no record.
C9_AnyDuplicateGets409 ==
  resp.op = "register" /\ resp.dupAtStart => resp.status = 409 /\ resp.created = 0

\* C10 - Sanitized responses: the identity a successful Register or Login
\* returns has neither the password field nor the refresh token field.
C10_Sanitized ==
  resp.op \in {"register", "login"} /\ resp.status \in {200, 201} =>
    /\ "password" \notin DOMAIN resp.body.user
    /\ "refreshToken" \notin DOMAIN resp.body.user

C10_Witness ==
  /\ resp.op = "login"
  /\ resp.status = 200
  /\ "refreshToken" \in DOMAIN users[resp.uid]
  /\ "username" \in DOMAIN resp.body.user

\* C11 - Uniform Refresh failure: every Refresh that does not succeed, at
\* whatever check it fails, is answered with 401, and the step at which it
\* fails leaves every stored record, so every stored refresh token, as it was.
C11_UniformRefreshFailure ==
  [][resp'.op = "refresh" /\ resp'.status # 200 =>
       resp'.status = 401 /\ users' = users]_vars

C11_Witness ==
  /\ resp.op = "refresh"
  /\ resp.status = 401
  /\ resp.uid \in Stored
  /\ storedRefreshToken(users[resp.uid]) # NoToken
  /\ resp.token # storedRefreshToken(users[resp.uid])

C13_ChangePasswordKeepsSession ==
  [][resp'.op = "changePassword" /\ resp'.status = 200 =>
       /\ DOMAIN users' = DOMAIN users
       /\ \A i \in Stored :
            /\ DOMAIN users'[i] = DOMAIN users[i]
            /\ \A f \in DOMAIN users[i] :
                 users'[i][f] # users[i][f] => i = resp'.uid /\ f = "password"
            /\ storedRefreshToken(users'[i]) = storedRefreshToken(users[i])
       /\ \A i \in Stored :
            Accepts(storedRefreshToken(users[i])) => Accepts(storedRefreshToken(users[i]))']_vars

\* a password change has just succeeded on a record whose stored refresh token
\* a Refresh accepts
C13_Witness ==
  /\ resp.op = "changePassword"
  /\ resp.status = 200
  /\ resp.wrote
  /\ users[resp.uid]["password"] # resp.before
  /\ Accepts(storedRefreshToken(users[resp.uid]))

\* a refresh token of the service whose expiry time has passed
Expired(token) == token.secret = "REFRESH_TOKEN_SECRET" /\ now >= token.exp

\* C14 - Expired refresh tokens are rejected: a Refresh that arrives with a
\* refresh token past its expiry time is answered at once with 401, writes
\* nothing, and never gets to the lookup or to minting, also when the token is
\* the one stored on the record.
C14_ExpiredRejected ==
  [][/\ resp'.op = "refresh" /\ received' # received /\ Expired(resp'.token) =>
          resp'.status = 401 /\ users' = users
     /\ \A s \in Slots :
          reqs[s].pc = "idle" /\ reqs'[s].op = "refresh" => ~Expired(reqs'[s].token)]_vars

\* a Refresh presenting the stored token, expired, has been answered with 401
C14_Witness ==
  /\ resp.op = "refresh"
  /\ resp.status = 401
  /\ Expired(resp.token)
  /\ resp.token.sub \in Stored
  /\ resp.token = storedRefreshToken(users[resp.token.sub])

\* C15 - Login failure outcomes and frame: a Login with neither username nor
\* email is answered 400, one that matches no record 404, one whose password
\* is not the record's 401; a Login that fails mints no token and leaves every
\* record as it was; and the only step of a Login that writes is the save of
\* its refresh token, which changes that one field of that one record.
C15_LoginFailures ==
  [][/\ resp'.op = "login" =>
          /\ resp'.loginCase = "missing" => resp'.status = 400
          /\ resp'.loginCase = "nomatch" => resp'.status = 404
          /\ resp'.loginCase = "badpassword" => resp'.status = 401
          /\ resp'.status # 200 =>
               /\ users' = users
               /\ resp'.saved = NoToken
               /\ DOMAIN resp'.body = {"statusCode"}
     /\ \A s \in Slots :
          (reqs[s].op = "login" \/ reqs'[s].op = "login") /\ reqs'[s].pc # reqs[s].pc =>
            IF reqs[s].pc = "gen_save"
            THEN /\ DOMAIN users' = DOMAIN users
                 /\ \A i \in Stored :
                      /\ DOMAIN users[i] \subseteq DOMAIN users'[i]
                      /\ DOMAIN users'[i] \subseteq DOMAIN users[i] \cup {"refreshToken"}
                      /\ \A f \in DOMAIN users[i] :
                           users'[i][f] # users[i][f] =>
                             i = reqs[s].uid /\ f = "refreshToken"
            ELSE users' = users]_vars

\* a Login with a wrong password for a record that holds a refresh token has
\* been answered 401
C15_Witness ==
  /\ resp.op = "login"
  /\ resp.loginCase = "badpassword"
  /\ resp.status = 401
  /\ storedRefreshToken(users[resp.uid]) # NoToken

\* C16 - Register input validation, as stated: a Register in which one of
\* username, email, fullName and password is absent, empty or blank is
\* answered 400 and creates no record.
C16_IncompleteGets400 ==
  resp.op = "register" /\ (resp.absent \/ ~resp.valid) =>
    resp.status = 400 /\ resp.created = 0

\* C17 - Register is all-or-nothing on the store: the step at which a Register
\* fails leaves the records as they were and that Register has created none;
\* a Register answered 201 has created one record, in a step that added that
\* record and nothing else; no other step of a Register writes; and every
\* stored record has the url of an uploaded avatar.
C17_RegisterAllOrNothing ==
  /\ [](\A i \in Stored : users[i]["avatar"] \in UploadResults \ {Undefined})
  /\ [][/\ resp'.op = "register" =>
             /\ users' = users
             /\ resp'.status # 201 => resp'.created = 0
             /\ resp'.status = 201 => resp'.created \in Stored
        /\ \A s \in Slots :
             (reqs[s].op = "register" \/ reqs'[s].op = "register")
               /\ reqs'[s].pc # reqs[s].pc =>
               IF reqs'[s].created # reqs[s].created /\ reqs'[s].created # 0
               THEN /\ reqs'[s].created \notin DOMAIN users
                    /\ DOMAIN users' = DOMAIN users \cup {reqs'[s].created}
                    /\ \A i \in DOMAIN users : users'[i] = users[i]
               ELSE users' = users]_vars

\* a second record has been created and its Register answered 201
C17_Witness ==
  /\ resp.op = "register"
  /\ resp.status = 201
  /\ resp.created = 2
  /\ Cardinality(Stored) = 2
  /\ users[2]["avatar"] = "avatar.url"

\* C18 - Wrong old password, as stated: a ChangePassword whose oldPassword is
\* not the record's is answered 401 and leaves the record's password hash and
\* refresh token as they were.
C18_WrongOldPassword401 ==
  resp.op = "changePassword" /\ resp.uid \in Stored /\ ~resp.oldOk =>
    /\ resp.status = 401
    /\ ~resp.wrote
    /\ users[resp.uid]["password"] = resp.before

\* C19 - LoggedOut is stable, as stated: from the completion of a Logout until
\* a Login of the identity stores a token, the record holds no refresh token,
\* whatever Refresh requests of the identity are in flight.
C19_LoggedOutStable ==
  \A i \in Stored : revoked[i] # {} => storedRefreshToken(users[i]) = NoToken

\* C20 - Session continuity, requests handled one at a time: a Refresh that
\* presents the refresh token most recently given to the identity by a Login
\* or a Refresh, not expired, with no Logout of the identity since, succeeds.
C20_SessionContinuity ==
  resp.op = "refresh" /\ resp.current => resp.status = 200

\* the third link of a chain: a Refresh of the current token has succeeded
\* after two tokens of the chain were exchanged
C20_Witness ==
  /\ resp.op = "refresh"
  /\ resp.current
  /\ resp.status = 200
  /\ Cardinality(redeemed) >= 2

====
